---------------------------- MODULE Spec2Model ----------------------------
(***************************************************************************)
(* Model of the self-improvement core of wenhongg/ai-startup:              *)
(*   - SafetyChecker.test_changes / _check_file_safety                     *)
(*       (src/src/safety_checker.py)                                       *)
(*   - RateLimiter check / record / completion (src/src/rate_limits.py)    *)
(*   - SystemOrchestrator.run_improvement_cycle with its tenacity retry    *)
(*       wrappers, driven by main() and run_and_log_improvement_cycle      *)
(*       (src/src/orchestrator.py, src/src/main.py,                        *)
(*        src/src/agents/founder.py, src/src/agents/developer.py)          *)
(*   - the Observability record (src/src/observability.py)                 *)
(*                                                                         *)
(* Conventions.  Calls between synchronous and asynchronous functions are  *)
(* modelled as plain calls.  Text is modelled by the substrings the code   *)
(* looks for in it: a content is a sequence of snippets, and a snippet     *)
(* carries the needles (denylist entries, protected patterns, "open(")     *)
(* that occur in it.  Time is counted in minutes since construction.       *)
(***************************************************************************)
EXTENDS Integers, Sequences, FiniteSets, TLC

(***************************************************************************)
(* Bounds of the model (not program constants).                            *)
(***************************************************************************)
MaxEntries == 2
MaxSnippets == 1
MaxAdvances == 3
MaxCycles == 2
NumCallers == 2
NumRequests == 2
MaxLimit == 2
MaxDays == 3
MaxRuns == 4
MaxFixAttempts == 4

None == "None"

(***************************************************************************)
(* Generic sequence helpers.                                               *)
(***************************************************************************)
RECURSIVE SeqConcat(_)
SeqConcat(ss) == IF ss = <<>> THEN <<>> ELSE Head(ss) \o SeqConcat(Tail(ss))

Range(s) == {s[i] : i \in 1..Len(s)}

(***************************************************************************)
(* Paths.  A path is [dir, name, ext]; dir is the sequence of directory    *)
(* segments, so that str.endswith(".py") and ".." segments are computed.   *)
(***************************************************************************)
Path(dir, name, ext) == [dir |-> dir, name |-> name, ext |-> ext]

\* configuration imported by safety_checker.py:7-11
PROTECTED_FILES ==
    << Path(<<"src">>, "safety_checker", "py"),
       Path(<<"src">>, "code_manager", "py"),
       Path(<<"src">>, "config", "py"),
       Path(<<"src">>, "observability", "py"),
       Path(<<"src">>, "rate_limits", "py") >>

AI_MAINTAINED_FILES == << Path(<<>>, "README_ai", "md") >>

PROTECTED_PATTERNS ==
    << "async def _create_backup", "async def _restore_backup",
       "class SafetyChecker", "class CodeManager", "class Settings",
       "class Observability:", "class RateLimiter:",
       "def _create_backup(self):", "def _restore_backup(self):",
       "def validate_plan(self):", "def test_changes(self):",
       "def create_pull_request(self):", "def get_cycle_summary(self):",
       "def check_openai_limit(self):", "def check_github_limit(self):" >>

\* _check_file_safety: the two literal denylists
dangerous_imports ==
    << "os.system", "subprocess.run", "subprocess.Popen", "eval", "exec",
       "pickle.load", "marshal.load" >>

dangerous_fs_ops ==
    << "shutil.rmtree", "os.remove", "os.rename", "os.replace",
       "open(file, 'w'", "open(file, 'wb'", "open(file, 'a'" >>

(***************************************************************************)
(* Input alphabet: the snippets a content may be made of, and for each     *)
(* the needles that occur in it as substrings / regex matches.             *)
(***************************************************************************)
ContentSnippets ==
    { "def add(a,b): return a+b",
      "os.system('rm -rf /')",
      "shutil.rmtree(d)",
      "class SafetyChecker:",
      "open('/etc/passwd')",
      "open('data.txt')",
      "subprocess.run(f'ls {d}')" }

NeedlesIn(snippet) ==
    CASE snippet = "os.system('rm -rf /')"     -> {"os.system"}
      [] snippet = "shutil.rmtree(d)"          -> {"shutil.rmtree"}
      [] snippet = "class SafetyChecker:"      -> {"class SafetyChecker"}
      [] snippet = "open('/etc/passwd')"       -> {"open("}
      [] snippet = "open('data.txt')"          -> {"open("}
      [] snippet = "subprocess.run(f'ls {d}')" -> {"subprocess.run"}
      [] OTHER                                 -> {}

\* first argument of each open(...) call of the snippet, quotes stripped
OpenCallArgs(snippet) ==
    CASE snippet = "open('/etc/passwd')" -> << "/etc/passwd" >>
      [] snippet = "open('data.txt')"    -> << "data.txt" >>
      [] OTHER                           -> << >>

\* stripped arguments of each subprocess.run / subprocess.Popen call
SubprocessCallArgs(snippet) ==
    CASE snippet = "subprocess.run(f'ls {d}')" -> << << "f'ls {d}" >> >>
      [] OTHER                                 -> << >>

isabs(arg) == arg \in {"/etc/passwd"}

StartsWithFOrPercent(arg) == arg \in {"f'ls {d}"}

\* what ast.parse does with a content: returns, raises SyntaxError, or
\* raises another Exception (RecursionError / MemoryError on deep nesting)
ParseOutcomes == {"ok", "SyntaxError", "Exception"}

RECURSIVE SeqsUpTo(_, _)
SeqsUpTo(S, n) ==
    IF n = 0 THEN { <<>> }
    ELSE LET shorter == SeqsUpTo(S, n - 1)
         IN  shorter \cup { Append(s, x) : s \in shorter, x \in S }

Contents ==
    { [snippets |-> s, parse |-> p] :
        s \in { q \in SeqsUpTo(ContentSnippets, MaxSnippets) :
                  \A i, j \in 1..Len(q) : i # j => q[i] # q[j] },
        p \in ParseOutcomes }

InputPaths ==
    { Path(<<"src">>, "config", "py"),
      Path(<<>>, "README_ai", "md"),
      Path(<<"src">>, "util", "py"),
      Path(<<"..">>, "outside", "py") }

(***************************************************************************)
(* String primitives of the checker, computed on the representation.       *)
(***************************************************************************)
\* `needle in content` / re.search(needle, content)
Occurs(needle, content) ==
    \E i \in 1..Len(content.snippets) : needle \in NeedlesIn(content.snippets[i])

endswith_py(file_path) == file_path.ext = "py"

ast_parse(content) == content.parse

\* dict helpers: a changeset is a sequence of [path, content] with unique paths
Keys(changes) == { changes[i].path : i \in 1..Len(changes) }

NoPath == Path(<< >>, "", "")

Issue(msg, file, detail) == [msg |-> msg, file |-> file, detail |-> detail]

(***************************************************************************)
(* SafetyChecker._check_file_safety (safety_checker.py:107-174)            *)
(***************************************************************************)
\* variant: the membership test `imp in content` degenerated to `imp`
DangerousImportIssues_NoTest(file_path, content) ==
    [i \in 1..Len(dangerous_imports) |->
        Issue("Dangerous import/function found", file_path, dangerous_imports[i])]

DangerousImportIssues(file_path, content) ==
    SeqConcat([i \in 1..Len(dangerous_imports) |->
        IF Occurs(dangerous_imports[i], content)
        THEN << Issue("Dangerous import/function found", file_path, dangerous_imports[i]) >>
        ELSE << >>])

DangerousFsOpIssues(file_path, content) ==
    SeqConcat([i \in 1..Len(dangerous_fs_ops) |->
        IF Occurs(dangerous_fs_ops[i], content)
        THEN << Issue("Dangerous file system operation found", file_path, dangerous_fs_ops[i]) >>
        ELSE << >>])

OpenCallIssues(file_path, content) ==
    IF Occurs("open(", content)
    THEN SeqConcat([i \in 1..Len(content.snippets) |->
            LET args == OpenCallArgs(content.snippets[i])
            IN  IF Len(args) > 0 /\ isabs(args[1])
                THEN << Issue("Absolute path used in open() call", NoPath, args[1]) >>
                ELSE << >>])
    ELSE << >>

SubprocessIssues(file_path, content) ==
    IF Occurs("subprocess.run", content) \/ Occurs("subprocess.Popen", content)
    THEN SeqConcat([i \in 1..Len(content.snippets) |->
            SeqConcat([m \in 1..Len(SubprocessCallArgs(content.snippets[i])) |->
                LET args == SubprocessCallArgs(content.snippets[i])[m]
                IN  SeqConcat([a \in 1..Len(args) |->
                        IF StartsWithFOrPercent(args[a])
                        THEN << Issue("Potential command injection vulnerability",
                                      file_path, content.snippets[i]) >>
                        ELSE << >>])])])
    ELSE << >>

_check_file_safety(file_path, content) ==
    DangerousImportIssues(file_path, content)
      \o DangerousFsOpIssues(file_path, content)
      \o OpenCallIssues(file_path, content)
      \o SubprocessIssues(file_path, content)

(***************************************************************************)
(* SafetyChecker.test_changes (safety_checker.py:58-105)                   *)
(***************************************************************************)
\* lines 72-77: the syntax loop; a non-SyntaxError exception of ast.parse
\* leaves the loop (and the try block) with the issues collected so far
RECURSIVE SyntaxLoop(_, _, _)
SyntaxLoop(changes, i, acc) ==
    IF i > Len(changes) THEN [raised |-> FALSE, issues |-> acc]
    ELSE LET e == changes[i]
         IN  IF ~endswith_py(e.path) THEN SyntaxLoop(changes, i + 1, acc)
             ELSE CASE ast_parse(e.content) = "ok" ->
                         SyntaxLoop(changes, i + 1, acc)
                    [] ast_parse(e.content) = "SyntaxError" ->
                         SyntaxLoop(changes, i + 1,
                                    Append(acc, Issue("Syntax error in", e.path, "SyntaxError")))
                    [] OTHER -> [raised |-> TRUE, issues |-> acc]

\* lines 80-82
ProtectedFileIssues(changes) ==
    SeqConcat([i \in 1..Len(PROTECTED_FILES) |->
        IF PROTECTED_FILES[i] \in Keys(changes)
        THEN << Issue("Changes attempt to modify protected file", PROTECTED_FILES[i], "") >>
        ELSE << >>])

\* variant: the contents of AI-maintained paths are not searched
ProtectedPatternIssues_SkipMaintained(changes) ==
    SeqConcat([i \in 1..Len(PROTECTED_PATTERNS) |->
        SeqConcat([j \in 1..Len(changes) |->
            IF /\ changes[j].path \notin Range(AI_MAINTAINED_FILES)
               /\ Occurs(PROTECTED_PATTERNS[i], changes[j].content)
            THEN << Issue("Changes attempt to modify protected pattern", NoPath, PROTECTED_PATTERNS[i]) >>
            ELSE << >>])])

\* lines 85-90
ProtectedPatternIssues(changes) ==
    SeqConcat([i \in 1..Len(PROTECTED_PATTERNS) |->
        SeqConcat([j \in 1..Len(changes) |->
            IF Occurs(PROTECTED_PATTERNS[i], changes[j].content)
            THEN << Issue("Changes attempt to modify protected pattern", NoPath, PROTECTED_PATTERNS[i]) >>
            ELSE << >>])])

\* lines 93-98
FileSafetyIssues(changes) ==
    SeqConcat([j \in 1..Len(changes) |->
        IF changes[j].path \in Range(AI_MAINTAINED_FILES)
        THEN << >>
        ELSE _check_file_safety(changes[j].path, changes[j].content)])

\* variant: the handler of an internal error returns what was collected
\* and does not add the error to the list
test_changes_ErrorNotListed(changes) ==
    LET syntax == SyntaxLoop(changes, 1, << >>)
    IN  IF syntax.raised
        THEN [ok |-> FALSE, issues |-> syntax.issues]
        ELSE LET issues == syntax.issues
                             \o ProtectedFileIssues(changes)
                             \o ProtectedPatternIssues(changes)
                             \o FileSafetyIssues(changes)
             IN  [ok |-> Len(issues) = 0, issues |-> issues]

test_changes(changes) ==
    LET syntax == SyntaxLoop(changes, 1, << >>)
    IN  IF syntax.raised
        THEN [ok |-> FALSE,
              issues |-> Append(syntax.issues, Issue("Error during testing", NoPath, "Exception"))]
        ELSE LET issues == syntax.issues
                             \o ProtectedFileIssues(changes)
                             \o ProtectedPatternIssues(changes)
                             \o FileSafetyIssues(changes)
             IN  [ok |-> Len(issues) = 0, issues |-> issues]

(***************************************************************************)
(* SafetyChecker.validate_plan (safety_checker.py:30-56).  A plan is a     *)
(* text: the paths it names and the snippets it quotes; given is FALSE     *)
(* for the plan None, on which `file in plan` raises TypeError.            *)
(***************************************************************************)
NoPlan == [given |-> FALSE, mentions |-> {}, snippets |-> << >>]

PlanPaths == { Path(<<"src">>, "config", "py"), Path(<<"src">>, "util", "py") }

Plans ==
    { NoPlan } \cup
    { [given |-> TRUE, mentions |-> m, snippets |-> q] :
        m \in SUBSET PlanPaths, q \in SeqsUpTo(ContentSnippets, MaxSnippets) }

\* lines 42-44: `file in plan`
PlanFileIssues(plan) ==
    SeqConcat([i \in 1..Len(PROTECTED_FILES) |->
        IF PROTECTED_FILES[i] \in plan.mentions
        THEN << Issue("Plan attempts to modify protected file", PROTECTED_FILES[i], "") >>
        ELSE << >>])

\* lines 47-49: re.search(pattern, plan)
PlanPatternIssues(plan) ==
    SeqConcat([i \in 1..Len(PROTECTED_PATTERNS) |->
        IF Occurs(PROTECTED_PATTERNS[i], plan)
        THEN << Issue("Plan attempts to modify protected pattern", NoPath, PROTECTED_PATTERNS[i]) >>
        ELSE << >>])

validate_plan(plan) ==
    IF ~plan.given
    THEN [ok |-> FALSE,
          issues |-> << Issue("Error during validation", NoPath, "TypeError") >>]
    ELSE LET issues == PlanFileIssues(plan) \o PlanPatternIssues(plan)
         IN  [ok |-> Len(issues) = 0, issues |-> issues]

(***************************************************************************)
(* RateLimiter, GitHub budget (rate_limits.py:25-28, 42-46, 81-98,         *)
(* 112-119).  Time is in minutes; timedelta(hours=1) is HourMinutes.       *)
(***************************************************************************)
HourMinutes == 60

\* asyncio.sleep(60 * 60 * 24) and asyncio.sleep(300) of main(), in minutes
DayMinutes == 1440
FiveMinutes == 5

github_limits == [requests_per_hour |-> 10, concurrent_requests |-> 1]

\* RateLimiter.__init__: the tracking dict at construction time t
github_requests_init(t) ==
    [last_reset |-> t, request_count |-> 0, concurrent_count |-> 0]

\* the window test of check_github_limit (line 89)
github_window_expired(g, t) == t - g.last_reset > HourMinutes

\* variant: the limit test written with > instead of >=
check_github_limit_OffByOne(g, t) ==
    LET g1 == IF github_window_expired(g, t)
              THEN [g EXCEPT !.last_reset = t, !.request_count = 0]
              ELSE g
    IN  [requests |-> g1,
         allowed  |-> ~( \/ g1.request_count > github_limits.requests_per_hour
                         \/ g1.concurrent_count >= github_limits.concurrent_requests )]

\* check_github_limit at time t: the tracking dict after the call and the
\* value returned
check_github_limit(g, t) ==
    LET g1 == IF github_window_expired(g, t)
              THEN [g EXCEPT !.last_reset = t, !.request_count = 0]
              ELSE g
    IN  [requests |-> g1,
         allowed  |-> ~( \/ g1.request_count >= github_limits.requests_per_hour
                         \/ g1.concurrent_count >= github_limits.concurrent_requests )]

record_github_request(g) ==
    [g EXCEPT !.request_count = @ + 1, !.concurrent_count = @ + 1]

record_github_completion(g) ==
    [g EXCEPT !.concurrent_count = @ - 1]


(***************************************************************************)
(* RateLimiter, OpenAI budget (rate_limits.py:16-22, 31-40, 48-79,         *)
(* 100-110, 121-129).  timedelta(minutes=1), timedelta(days=1) and         *)
(* timedelta(days=30) in minutes.                                          *)
(***************************************************************************)
OneMinute == 1
MonthMinutes == 30 * DayMinutes

openai_limits ==
    [requests_per_minute |-> 1, tokens_per_minute |-> 2000,
     concurrent_requests |-> 1, daily_token_limit |-> 33000,
     monthly_token_limit |-> 1000000]

\* RateLimiter.__init__: the tracking dict at construction time t
openai_requests_init(t) ==
    [last_reset |-> t, request_count |-> 0, token_count |-> 0,
     concurrent_count |-> 0, daily_tokens |-> 0, monthly_tokens |-> 0,
     last_daily_reset |-> t, last_monthly_reset |-> t]

\* the three window tests of check_openai_limit (lines 56, 62, 67)
minute_window_expired(o, t) == t - o.last_reset > OneMinute
daily_window_expired(o, t) == t - o.last_daily_reset > DayMinutes
monthly_window_expired(o, t) == t - o.last_monthly_reset > MonthMinutes

\* variant: the minute reset also clears the tokens of the day
reset_minute_ClearsDay(o, t) ==
    IF minute_window_expired(o, t)
    THEN [o EXCEPT !.last_reset = t, !.request_count = 0, !.token_count = 0,
                   !.daily_tokens = 0]
    ELSE o

\* lines 56-59
reset_minute(o, t) ==
    IF minute_window_expired(o, t)
    THEN [o EXCEPT !.last_reset = t, !.request_count = 0, !.token_count = 0]
    ELSE o

\* lines 62-64
reset_daily(o, t) ==
    IF daily_window_expired(o, t)
    THEN [o EXCEPT !.last_daily_reset = t, !.daily_tokens = 0]
    ELSE o

\* lines 67-69
reset_monthly(o, t) ==
    IF monthly_window_expired(o, t)
    THEN [o EXCEPT !.last_monthly_reset = t, !.monthly_tokens = 0]
    ELSE o

\* variant: the limit tests without the test of the daily tokens
openai_limit_hit_NoDaily(o, estimated_tokens) ==
    \/ o.request_count >= openai_limits.requests_per_minute
    \/ o.token_count + estimated_tokens > openai_limits.tokens_per_minute
    \/ o.concurrent_count >= openai_limits.concurrent_requests
    \/ o.monthly_tokens + estimated_tokens > openai_limits.monthly_token_limit

\* lines 72-77: the five limit tests
openai_limit_hit(o, estimated_tokens) ==
    \/ o.request_count >= openai_limits.requests_per_minute
    \/ o.token_count + estimated_tokens > openai_limits.tokens_per_minute
    \/ o.concurrent_count >= openai_limits.concurrent_requests
    \/ o.daily_tokens + estimated_tokens > openai_limits.daily_token_limit
    \/ o.monthly_tokens + estimated_tokens > openai_limits.monthly_token_limit

\* check_openai_limit(estimated_tokens) at time t: the tracking dict after
\* the call and the value returned
check_openai_limit(o, estimated_tokens, t) ==
    LET o1 == reset_monthly(reset_daily(reset_minute(o, t), t), t)
    IN  [requests |-> o1, allowed |-> ~openai_limit_hit(o1, estimated_tokens)]

record_openai_request(o, tokens_used) ==
    [o EXCEPT !.request_count = @ + 1,
              !.token_count = @ + tokens_used,
              !.daily_tokens = @ + tokens_used,
              !.monthly_tokens = @ + tokens_used,
              !.concurrent_count = @ + 1]

record_openai_completion(o) ==
    [o EXCEPT !.concurrent_count = @ - 1]

\* wait_for_openai, lines 124-128: the sleep after a check that returned
\* False, in seconds
openai_sleep_seconds(o, estimated_tokens) ==
    IF \/ o.daily_tokens + estimated_tokens > openai_limits.daily_token_limit
       \/ o.monthly_tokens + estimated_tokens > openai_limits.monthly_token_limit
    THEN 60
    ELSE 1

(***************************************************************************)
(* Improvement cycle: retry wrappers and collaborators.                    *)
(***************************************************************************)
\* tenacity stop_after_attempt(3) on _run_founder_interaction,
\* _run_developer_interaction (orchestrator.py:68, 80) and on
\* run_and_log_improvement_cycle (main.py:45)
founder_stop_after_attempt == 3
developer_stop_after_attempt == 3
retry_policy_stop_after_attempt == 3

\* Proposals carry the cycle whose model call produced them; the None that
\* generate_proposal returns carries the cycle too, NoProposal is the None
\* of a variable not yet assigned.
NoProposal == [cycle |-> 0, kind |-> "None"]

\* What founder.generate_proposal can do when it has to ask the model:
\*   "text"        a response _parse_proposal turns into a Proposal
\*   "protected_text"  the same, and the text names a protected file
\*   "error"       the model call failed; generate_response returned ""
\*                 (base.py:56-58), which parses into a Proposal of empty fields
\*   "unparseable" _parse_proposal raised ProposalParseError: None is returned
\*   "raise"       an exception left generate_proposal
FounderOutcomes == {"text", "protected_text", "error", "unparseable", "raise"}

\* FounderAI.generate_proposal (founder.py:56-94): the value returned and
\* the cache afterwards, for an outcome that returns
generate_proposal(cached, outcome, n) ==
    IF cached # NoProposal
    THEN [result |-> cached, cached |-> cached]
    ELSE CASE outcome = "text" ->
                LET prop == [cycle |-> n, kind |-> "parsed"]
                IN  [result |-> prop, cached |-> prop]
           [] outcome = "protected_text" ->
                LET prop == [cycle |-> n, kind |-> "protected"]
                IN  [result |-> prop, cached |-> prop]
           [] outcome = "error" ->
                LET prop == [cycle |-> n, kind |-> "empty"]
                IN  [result |-> prop, cached |-> prop]
           [] OTHER -> [result |-> [cycle |-> n, kind |-> "None"],
                        cached |-> NoProposal]

\* The changesets developer.implement_changes may return: none at all
\* (the model named no files, or its call failed and "" was parsed), a
\* harmless edit, or an edit calling os.system.
SafeChanges ==
    << [path |-> Path(<<"src">>, "util", "py"),
        content |-> [snippets |-> << "def add(a,b): return a+b" >>, parse |-> "ok"]] >>

UnsafeChanges ==
    << [path |-> Path(<< >>, "a", "py"),
        content |-> [snippets |-> << "os.system('rm -rf /')" >>, parse |-> "ok"]] >>

DeveloperChangesets == { << >>, SafeChanges, UnsafeChanges }

\* developer.implement_changes returns a changeset or raises
DeveloperOutcomes ==
    { [raises |-> FALSE, files |-> f] : f \in DeveloperChangesets }
        \cup { [raises |-> TRUE, files |-> << >>] }

NoChanges == [returned |-> FALSE, files |-> << >>]

\* per run: the calls made to each collaborator (publish: calls of
\* create_pull_request; github: calls it went on to make to the GitHub API)
\* and the requests recorded with a RateLimiter
NoCalls == [summarize |-> 0, propose |-> 0, implement |-> 0, publish |-> 0,
            github |-> 0, reserved |-> 0]

\* tenacity: after a failed attempt, stop (RetryError) or try again
RetryStops(attempt, stop_after_attempt) == attempt >= stop_after_attempt

(***************************************************************************)
(* Observability (observability.py).  Times are minutes; a time that is    *)
(* None is NoTime.  Texts are strings, None when unset.                    *)
(***************************************************************************)
NoTime == -1

\* Observability.__init__ (observability.py:11-20)
cycle_data_init ==
    [start_time |-> NoTime, analysis |-> None, proposal |-> None,
     implementation_plan |-> None, changes |-> NoChanges, fix_attempts |-> << >>,
     end_time |-> NoTime, status |-> None]

\* Python truth of a text field and of the changes field (None, "" and {}
\* are false)
Truthy(text) == text \notin {None, ""}

TruthyChanges(ch) == ch.returned /\ ch.files # << >>

\* start_cycle (observability.py:30-42) at time t
start_cycle(t) == [cycle_data_init EXCEPT !.start_time = t]

\* record_fix_attempt appends one entry to fix_attempts; nothing limits the
\* length of the list.
record_fix_attempt(cd, issues, fixed_changes, t) ==
    [cd EXCEPT !.fix_attempts =
        Append(@, [timestamp |-> t, issues |-> issues, changes |-> fixed_changes])]

\* get_cycle_summary (observability.py:172-214): what the text is made of
get_cycle_summary(cd) ==
    IF cd.start_time = NoTime
    THEN [in_progress |-> FALSE, start_time |-> NoTime, end_time |-> NoTime,
          status |-> None, analysis |-> None, proposal |-> None,
          implementation_plan |-> None, files |-> << >>, fix_attempts |-> << >>]
    ELSE [in_progress |-> TRUE, start_time |-> cd.start_time,
          end_time |-> cd.end_time, status |-> cd.status,
          analysis |-> IF Truthy(cd.analysis) THEN cd.analysis ELSE None,
          proposal |-> IF Truthy(cd.proposal) THEN cd.proposal ELSE None,
          implementation_plan |-> IF Truthy(cd.implementation_plan)
                                  THEN cd.implementation_plan ELSE None,
          files |-> IF TruthyChanges(cd.changes)
                    THEN [i \in 1..Len(cd.changes.files) |-> cd.changes.files[i].path]
                    ELSE << >>,
          fix_attempts |-> cd.fix_attempts]

NoSummary == get_cycle_summary(cycle_data_init)

\* the phase rules of get_cycle_status (observability.py:125-133)
Phase(cd) ==
    CASE Truthy(cd.analysis) /\ ~Truthy(cd.proposal) -> "analyzing"
      [] Truthy(cd.proposal) /\ ~Truthy(cd.implementation_plan) -> "proposing"
      [] Truthy(cd.implementation_plan) /\ ~TruthyChanges(cd.changes) -> "implementing"
      [] TruthyChanges(cd.changes) /\ cd.end_time = NoTime -> "reviewing"
      [] OTHER -> None

\* get_cycle_status (observability.py:119-147); a key the returned dict
\* does not hold is None (NoTime, NoSummary).  No code sets the key
\* "failure_details" of cycle_data, so line 143 reports its default.
get_cycle_status(cd) ==
    IF cd.start_time = NoTime
    THEN [status |-> "idle", phase |-> None, start_time |-> NoTime,
          end_time |-> NoTime, failure_details |-> None, summary |-> NoSummary]
    ELSE LET status == IF Truthy(cd.status) THEN cd.status ELSE "running"
             closed == status \in {"completed", "failed"}
         IN  [status |-> status,
              phase |-> Phase(cd),
              start_time |-> IF closed THEN cd.start_time ELSE NoTime,
              end_time |-> IF closed THEN cd.end_time ELSE NoTime,
              failure_details |-> IF status = "failed"
                                  THEN "No details available" ELSE None,
              summary |-> IF status = "completed"
                          THEN get_cycle_summary(cd) ELSE NoSummary]

\* pr.html_url, the value create_pull_request returns (code_manager.py:110)
html_url == "https://github.com/owner/repo/pull/1"

\* _get_log_filename("cycle_data") (observability.py:25-28): the file is
\* named by the date, here the number of the day
DateOf(t) == t \div DayMinutes + 1

\* what a cycle_data file holds: the JSON text of a record, or text that
\* json.load rejects (a write that failed part-way, observability.py:97-102)
SavedRecord(cd) == [kind |-> "json", data |-> cd]

CorruptFile == [kind |-> "corrupt", data |-> cycle_data_init]

\* _save_cycle_data at time t (observability.py:94-102)
_save_cycle_data(files, cd, t, written) ==
    LET d == DateOf(t)
    IN  [x \in DOMAIN files \cup {d} |->
            IF x = d THEN (IF written THEN SavedRecord(cd) ELSE CorruptFile)
                     ELSE files[x]]

\* variant: the end time is written and the status is left as it was
end_cycle_NoStatus(cd, status, t) == [cd EXCEPT !.end_time = t]

\* end_cycle at time t: the record afterwards (observability.py:89-90)
end_cycle(cd, status, t) == [cd EXCEPT !.end_time = t, !.status = status]

\* _load_cycle_data (observability.py:104-117): None for a file that cannot
\* be decoded
Loadable(file) == file.kind = "json"

\* log_files.sort(reverse=True) (observability.py:152-153): the names of
\* the cycle_data files, newest first
RECURSIVE SortedDescending(_)
SortedDescending(S) ==
    IF S = {} THEN << >>
    ELSE LET m == CHOOSE x \in S : \A y \in S : y <= x
         IN  << m >> \o SortedDescending(S \ {m})

\* the slice lst[:n] of Python for n >= 0
Slice(lst, n) == SubSeq(lst, 1, IF n < Len(lst) THEN n ELSE Len(lst))

\* one entry of the history (observability.py:159-169)
HistoryEntry(cd) ==
    [start_time |-> cd.start_time, end_time |-> cd.end_time, status |-> cd.status,
     summary |-> CASE cd.status = "completed" -> "Cycle completed successfully."
                   [] cd.status = "failed" -> "Cycle failed."
                   [] OTHER -> ""]

RECURSIVE HistoryOf(_, _)
HistoryOf(files, names) ==
    IF names = << >> THEN << >>
    ELSE (IF Loadable(files[Head(names)])
          THEN << HistoryEntry(files[Head(names)].data) >>
          ELSE << >>) \o HistoryOf(files, Tail(names))

\* get_cycle_history (observability.py:149-170)
get_cycle_history(files, limit) ==
    HistoryOf(files, Slice(SortedDescending(DOMAIN files), limit))

\* the logs directory holds no file
NoFiles == << >>

\* get_cycle_history has not been called
NoHistory == [returned |-> FALSE, limit |-> 0, entries |-> << >>]

\* Who calls run_and_log_improvement_cycle: the loop of main() and the
\* requests to POST /improve that are being handled
Requesters == {0} \cup (1..NumRequests)

IsMain(r) == r = 0

\* a caller that has not started; pc is "idle", then "ready" (about to call
\* run_improvement_cycle, or waiting to call it again), "running", "done".
\* cached, summaries and github are the founder's proposal cache, the code
\* reader's summary cache and the publisher's limiter of its orchestrator.
NewRequest ==
    [pc |-> "idle", attempt |-> 1, cached |-> NoProposal, summaries |-> FALSE,
     github |-> github_requests_init(0)]

(***************************************************************************)
(* State.                                                                  *)
(***************************************************************************)
VARIABLES
    candidate,      \* the `changes` argument handed to test_changes
    verdict,        \* what test_changes returned for it, once it has returned
    plan_verdict,   \* the `plan` handed to validate_plan and what it returned
    now,            \* datetime.now(), minutes since construction
    advances,       \* number of clock advances so far
    github_requests,\* RateLimiter.github_requests
    callerPc,       \* per caller: "idle", "allowed" (check returned True), "inflight"
    last_check,     \* the most recent check: its result and what it saw
    granted,        \* reservations granted since a check last reset the window
    pc,             \* where main / run_improvement_cycle stands
    cycle,          \* number of run_improvement_cycle runs started
    run_attempt,    \* attempt number of retry_policy around the current run
    founder_attempts,   \* attempts of _run_founder_interaction in this run
    developer_attempts, \* attempts of _run_developer_interaction in this run
    calls,          \* collaborator calls made in this run, per stage
    cached_summaries,   \* CodeReader._cached_summaries is not None
    cached_proposal,    \* FounderAI._cached_proposal
    proposal,       \* local `proposal` of run_improvement_cycle
    changes,        \* local `changes` of run_improvement_cycle
    raised,         \* the exception that left run_improvement_cycle, or None
    pull_requests,  \* the calls of create_pull_request, in order
    cycle_data,     \* Observability.cycle_data
    log_files,      \* the files of the logs directory, by name
    history,        \* what get_cycle_history returned, once it has been called
    requests,       \* per caller of run_and_log_improvement_cycle: where it stands
    running,        \* callers whose run_improvement_cycle call has not returned
    openai_requests, \* RateLimiter.openai_requests
    openai_pc,      \* where the caller of wait_for_openai stands
    openai_tokens   \* the estimated_tokens of that call

safetyVars == << candidate, verdict, plan_verdict >>

limiterVars == << now, advances, github_requests, callerPc, last_check, granted >>

ledgerVars == << cycle_data, log_files, history >>

endpointVars == << requests, running >>

openaiVars == << openai_requests, openai_pc, openai_tokens >>

cycleVars == << pc, cycle, run_attempt, founder_attempts, developer_attempts,
               calls, cached_summaries, cached_proposal, proposal, changes,
               raised, pull_requests >>

vars == << candidate, verdict, plan_verdict, now, advances, github_requests, callerPc,
           last_check, granted, pc, cycle, run_attempt, founder_attempts,
           developer_attempts, calls, cached_summaries, cached_proposal,
           proposal, changes, raised, pull_requests, cycle_data, log_files,
           history, requests, running, openai_requests, openai_pc,
           openai_tokens >>

(***************************************************************************)
(* Specification of the checker: build any changeset, then validate it.    *)
(***************************************************************************)
NoVerdict == [returned |-> FALSE, ok |-> FALSE, issues |-> << >>]

NoPlanVerdict == [returned |-> FALSE, plan |-> NoPlan, ok |-> FALSE, issues |-> << >>]

Returned(result) == [returned |-> TRUE, ok |-> result.ok, issues |-> result.issues]

Callers == 1..NumCallers

ClockSteps == {1, HourMinutes}

NoCheck == [done |-> FALSE, allowed |-> FALSE, elapsed |-> 0, granted |-> 0]

LimiterInit ==
    /\ now = 0
    /\ advances = 0
    /\ github_requests = github_requests_init(0)
    /\ openai_requests = openai_requests_init(0)
    /\ openai_pc = "idle"
    /\ openai_tokens = 0
    /\ callerPc = [c \in Callers |-> "idle"]
    /\ last_check = NoCheck
    /\ granted = 0

\* SystemOrchestrator.__init__ and the agents' constructors
OrchestratorInit ==
    /\ pc = "idle"
    /\ cycle = 0
    /\ run_attempt = 1
    /\ founder_attempts = 0
    /\ developer_attempts = 0
    /\ calls = NoCalls
    /\ cached_summaries = FALSE
    /\ cached_proposal = NoProposal
    /\ proposal = NoProposal
    /\ changes = NoChanges
    /\ raised = None
    /\ pull_requests = << >>
    /\ cycle_data = cycle_data_init
    /\ history = NoHistory
    /\ requests = [r \in Requesters |-> NewRequest]
    /\ running = {}

SafetyInit ==
    /\ candidate = << >>
    /\ verdict = NoVerdict
    /\ plan_verdict = NoPlanVerdict
    /\ LimiterInit
    /\ OrchestratorInit
    /\ log_files = NoFiles

AddEntry(p, c) ==
    /\ ~verdict.returned
    /\ ~plan_verdict.returned
    /\ Len(candidate) < MaxEntries
    /\ p \notin Keys(candidate)
    /\ candidate' = Append(candidate, [path |-> p, content |-> c])
    /\ UNCHANGED << verdict, plan_verdict, limiterVars, cycleVars, ledgerVars,
                    endpointVars, openaiVars >>

TestChanges ==
    /\ ~verdict.returned
    /\ ~plan_verdict.returned
    /\ verdict' = Returned(test_changes(candidate))
    /\ UNCHANGED << candidate, plan_verdict, limiterVars, cycleVars, ledgerVars,
                    endpointVars, openaiVars >>

\* validate_plan is called with a plan, before any changeset exists
ValidatePlan(plan) ==
    /\ ~verdict.returned
    /\ ~plan_verdict.returned
    /\ candidate = << >>
    /\ plan_verdict' = [returned |-> TRUE, plan |-> plan,
                        ok |-> validate_plan(plan).ok,
                        issues |-> validate_plan(plan).issues]
    /\ UNCHANGED << candidate, verdict, limiterVars, cycleVars, ledgerVars,
                    endpointVars, openaiVars >>

SafetyNext ==
    \/ \E p \in InputPaths, c \in Contents : AddEntry(p, c)
    \/ TestChanges
    \/ \E plan \in Plans : ValidatePlan(plan)

SpecSafety == SafetyInit /\ [][SafetyNext]_vars

(***************************************************************************)
(* Specifications of the GitHub budget.  A caller checks, and when the     *)
(* check returned True records the request and later its completion; a     *)
(* caller whose check returned False stays idle and may check again (the   *)
(* polling loop of wait_for_github).  The clock advances between steps.    *)
(***************************************************************************)
AdvanceClock(d) ==
    /\ advances < MaxAdvances
    /\ now' = now + d
    /\ advances' = advances + 1
    /\ UNCHANGED << github_requests, callerPc, last_check, granted, safetyVars, cycleVars, ledgerVars, endpointVars, openaiVars >>

CheckGithub(c) ==
    /\ callerPc[c] = "idle"
    /\ LET r       == check_github_limit(github_requests, now)
           expired == github_window_expired(github_requests, now)
           before  == IF expired THEN 0 ELSE granted
       IN  /\ github_requests' = r.requests
           /\ last_check' = [done |-> TRUE, allowed |-> r.allowed,
                             elapsed |-> now - github_requests.last_reset,
                             granted |-> granted]
           /\ granted' = IF r.allowed THEN before + 1 ELSE before
           /\ callerPc' = [callerPc EXCEPT ![c] = IF r.allowed THEN "allowed" ELSE "idle"]
    /\ UNCHANGED << now, advances, safetyVars, cycleVars, ledgerVars, endpointVars, openaiVars >>

RecordGithub(c) ==
    /\ callerPc[c] = "allowed"
    /\ github_requests' = record_github_request(github_requests)
    /\ callerPc' = [callerPc EXCEPT ![c] = "inflight"]
    /\ UNCHANGED << now, advances, last_check, granted, safetyVars, cycleVars, ledgerVars, endpointVars, openaiVars >>

CompleteGithub(c) ==
    /\ callerPc[c] = "inflight"
    /\ github_requests' = record_github_completion(github_requests)
    /\ callerPc' = [callerPc EXCEPT ![c] = "idle"]
    /\ UNCHANGED << now, advances, last_check, granted, safetyVars, cycleVars, ledgerVars, endpointVars, openaiVars >>

\* sequential use: a reservation starts only when no other one is under way
CheckGithubSequential(c) ==
    /\ \A d \in Callers : callerPc[d] = "idle"
    /\ CheckGithub(c)

BudgetInit ==
    /\ LimiterInit
    /\ candidate = << >>
    /\ verdict = NoVerdict
    /\ plan_verdict = NoPlanVerdict
    /\ OrchestratorInit
    /\ log_files = NoFiles

BudgetSeqNext ==
    \/ \E d \in ClockSteps : AdvanceClock(d)
    \/ \E c \in Callers : CheckGithubSequential(c)
    \/ \E c \in Callers : RecordGithub(c)
    \/ \E c \in Callers : CompleteGithub(c)

BudgetConcNext ==
    \/ \E d \in ClockSteps : AdvanceClock(d)
    \/ \E c \in Callers : CheckGithub(c)
    \/ \E c \in Callers : RecordGithub(c)
    \/ \E c \in Callers : CompleteGithub(c)

SpecBudgetSeq == BudgetInit /\ [][BudgetSeqNext]_vars

SpecBudgetConc == BudgetInit /\ [][BudgetConcNext]_vars

(***************************************************************************)
(* Specification of the improvement cycle: main() calls                    *)
(* run_and_log_improvement_cycle on one orchestrator again and again;      *)
(* each call runs run_improvement_cycle under retry_policy.                *)
(***************************************************************************)
frame == << safetyVars, ledgerVars, endpointVars, openaiVars >>

\* the limiter's bookkeeping of the budget specifications
limiterGhosts == << callerPc, last_check, granted >>

\* orchestrator.py:93: the locals and counters of a run that begins
NewRun ==
    /\ cycle' = cycle + 1
    /\ pc' = "summarizing"
    /\ founder_attempts' = 0
    /\ developer_attempts' = 0
    /\ calls' = NoCalls
    /\ proposal' = NoProposal
    /\ changes' = NoChanges
    /\ raised' = None
    /\ UNCHANGED << pull_requests, safetyVars, ledgerVars, now, advances,
                    limiterGhosts >>

BeginCycle ==
    /\ cycle < MaxCycles
    /\ NewRun

\* main.py:60 -> main.py:84 -> orchestrator.py:93
StartRun ==
    /\ pc = "idle"
    /\ BeginCycle
    /\ UNCHANGED << run_attempt, cached_summaries, cached_proposal,
                    github_requests, endpointVars, openaiVars >>

\* variant: the developer is called right after the summary
SummarizeRepository_ThenDeveloper ==
    /\ pc = "summarizing"
    /\ cached_summaries' = TRUE
    /\ calls' = [calls EXCEPT !.summarize = @ + 1]
    /\ pc' = "implementing"
    /\ UNCHANGED << cycle, run_attempt, founder_attempts, developer_attempts,
                    cached_proposal, proposal, changes, raised, pull_requests,
                    limiterVars, frame >>

\* orchestrator.py:97-101: summarize_repository, then get_code_summaries
\* (answered from the cache just filled); neither raises
SummarizeRepository ==
    /\ pc = "summarizing"
    /\ cached_summaries' = TRUE
    /\ calls' = [calls EXCEPT !.summarize = @ + 1]
    /\ pc' = "proposing"
    /\ UNCHANGED << cycle, run_attempt, founder_attempts, developer_attempts,
                    cached_proposal, proposal, changes, raised, pull_requests,
                    limiterVars, frame >>

\* orchestrator.py:102 with the retry wrapper of lines 68-77: one attempt
FounderInteraction(outcome) ==
    /\ pc = "proposing"
    /\ founder_attempts' = founder_attempts + 1
    /\ calls' = [calls EXCEPT !.propose = @ + 1]
    /\ IF outcome = "raise" /\ cached_proposal = NoProposal
       THEN /\ IF RetryStops(founder_attempts + 1, founder_stop_after_attempt)
               THEN pc' = "failed" /\ raised' = "RetryError"
               ELSE pc' = "proposing" /\ raised' = raised
            /\ UNCHANGED << cached_proposal, proposal >>
       ELSE LET r == generate_proposal(cached_proposal, outcome, cycle)
            IN  /\ proposal' = r.result
                /\ cached_proposal' = r.cached
                /\ pc' = "implementing"
                /\ raised' = raised
    /\ UNCHANGED << cycle, run_attempt, developer_attempts, cached_summaries,
                    changes, pull_requests, limiterVars, frame >>

\* orchestrator.py:106 with the retry wrapper of lines 80-89: one attempt;
\* the proposal is passed on whatever it is
DeveloperInteraction(outcome) ==
    /\ pc = "implementing"
    /\ developer_attempts' = developer_attempts + 1
    /\ calls' = [calls EXCEPT !.implement = @ + 1]
    /\ IF outcome.raises
       THEN /\ IF RetryStops(developer_attempts + 1, developer_stop_after_attempt)
               THEN pc' = "failed" /\ raised' = "RetryError"
               ELSE pc' = "implementing" /\ raised' = raised
            /\ UNCHANGED changes
       ELSE /\ changes' = [returned |-> TRUE, files |-> outcome.files]
            /\ pc' = "publishing"
            /\ raised' = raised
    /\ UNCHANGED << cycle, run_attempt, founder_attempts, cached_summaries,
                    cached_proposal, proposal, pull_requests, limiterVars, frame >>

\* orchestrator.py:114: create_pull_request(changes, title, description) is
\* called (code_manager.py:34-41)
CreatePullRequest ==
    /\ pc = "publishing"
    /\ calls' = [calls EXCEPT !.publish = @ + 1]
    /\ pull_requests' = Append(pull_requests,
            [cycle |-> cycle, attempt |-> run_attempt, created |-> FALSE,
             branch |-> FALSE,
             approved |-> verdict.returned /\ verdict.ok /\ candidate = changes.files])
    /\ pc' = "pr_waiting"
    /\ UNCHANGED << cycle, run_attempt, founder_attempts, developer_attempts,
                    cached_summaries, cached_proposal, proposal, changes,
                    raised, limiterVars, frame >>

\* code_manager.py:44-49: one round of the polling loop of the limiter
\* (rate_limits.py:131-134); when the check passes the request is recorded
WaitForGithub ==
    /\ pc = "pr_waiting"
    /\ LET r == check_github_limit(github_requests, now)
       IN  IF r.allowed
           THEN /\ github_requests' = record_github_request(r.requests)
                /\ calls' = [calls EXCEPT !.reserved = @ + 1]
                /\ pc' = "pr_inflight"
           ELSE /\ github_requests' = r.requests
                /\ calls' = calls
                /\ pc' = "pr_waiting"
    /\ UNCHANGED << cycle, run_attempt, founder_attempts, developer_attempts,
                    cached_summaries, cached_proposal, proposal, changes,
                    raised, pull_requests, now, advances, limiterGhosts, frame >>

\* rate_limits.py:134: time passes while the loop sleeps
SleepForGithub(d) ==
    /\ pc = "pr_waiting"
    /\ ~check_github_limit(github_requests, now).allowed
    /\ advances < MaxAdvances
    /\ now' = now + d
    /\ advances' = advances + 1
    /\ UNCHANGED << github_requests, limiterGhosts, cycleVars, frame >>

\* code_manager.py:51-110: branch, commits and pull request were created;
\* the completion is recorded and the URL returned
PullRequestCreated ==
    /\ pc = "pr_inflight"
    /\ calls' = [calls EXCEPT !.github = @ + 1]
    /\ github_requests' = record_github_completion(github_requests)
    /\ pull_requests' = [pull_requests EXCEPT
                            ![Len(pull_requests)].created = TRUE,
                            ![Len(pull_requests)].branch = TRUE]
    /\ pc' = "completed"
    /\ UNCHANGED << cycle, run_attempt, founder_attempts, developer_attempts,
                    cached_summaries, cached_proposal, proposal, changes,
                    raised, now, advances, limiterGhosts, frame >>

\* calls of create_pull_request that can raise: the look-up of the default
\* branch (code_manager.py:60), before the new branch exists, and the pull
\* request (code_manager.py:96), after the files were committed to it
FailurePoints == {"get_git_ref", "create_pull"}

\* code_manager.py:112-115: a step after line 49 raised; the exception is
\* logged and raised again, and orchestrator.py:117-120 raises it again.
\* What the steps before it created on GitHub stays there.
PullRequestFailed(at) ==
    /\ pc = "pr_inflight"
    /\ calls' = [calls EXCEPT !.github = @ + 1]
    /\ pull_requests' = [pull_requests EXCEPT
                            ![Len(pull_requests)].branch = (at # "get_git_ref")]
    /\ pc' = "failed"
    /\ raised' = "Exception"
    /\ UNCHANGED << cycle, run_attempt, founder_attempts, developer_attempts,
                    cached_summaries, cached_proposal, proposal, changes,
                    limiterVars, frame >>

\* main.py:85-102, 63-66: the run returned; main sleeps a day and loops
RunReturned ==
    /\ pc = "completed"
    /\ pc' = "idle"
    /\ run_attempt' = 1
    /\ now' = now + DayMinutes
    /\ UNCHANGED << cycle, founder_attempts, developer_attempts, calls,
                    cached_summaries, cached_proposal, proposal, changes,
                    raised, pull_requests, advances, github_requests,
                    limiterGhosts, frame >>

\* main.py:104-115 under retry_policy: the run raised; it is run again, or
\* after the last attempt main logs, sleeps 300 s and loops (main.py:68-70)
RunRaised ==
    /\ pc = "failed"
    /\ pc' = "idle"
    /\ IF RetryStops(run_attempt, retry_policy_stop_after_attempt)
       THEN run_attempt' = 1 /\ now' = now + FiveMinutes
       ELSE run_attempt' = run_attempt + 1 /\ now' = now
    /\ UNCHANGED << cycle, founder_attempts, developer_attempts, calls,
                    cached_summaries, cached_proposal, proposal, changes,
                    raised, pull_requests, advances, github_requests,
                    limiterGhosts, frame >>

CycleInit ==
    /\ OrchestratorInit
    /\ LimiterInit
    /\ candidate = << >>
    /\ verdict = NoVerdict
    /\ plan_verdict = NoPlanVerdict
    /\ log_files = NoFiles

CycleNext ==
    \/ StartRun
    \/ SummarizeRepository
    \/ \E o \in FounderOutcomes : FounderInteraction(o)
    \/ \E o \in DeveloperOutcomes : DeveloperInteraction(o)
    \/ CreatePullRequest
    \/ WaitForGithub
    \/ \E d \in ClockSteps : SleepForGithub(d)
    \/ PullRequestCreated
    \/ \E at \in FailurePoints : PullRequestFailed(at)
    \/ RunReturned
    \/ RunRaised

SpecCycle == CycleInit /\ [][CycleNext]_vars

\* the process keeps executing: a step that can be taken is taken
SpecCycleFair == SpecCycle /\ WF_vars(CycleNext)

(***************************************************************************)
(* Specification of the retries: the loop of main() with a developer that  *)
(* fails on every call, while the founder answers.                         *)
(***************************************************************************)
StartRunAgain ==
    /\ pc = "idle"
    /\ cycle < MaxRuns
    /\ NewRun
    /\ UNCHANGED << run_attempt, cached_summaries, cached_proposal,
                    github_requests, endpointVars, openaiVars >>

FounderAnswers == FounderOutcomes \ {"raise"}

DeveloperFails == { o \in DeveloperOutcomes : o.raises }

RetryNext ==
    \/ StartRunAgain
    \/ SummarizeRepository
    \/ \E o \in FounderAnswers : FounderInteraction(o)
    \/ \E o \in DeveloperFails : DeveloperInteraction(o)
    \/ RunRaised

SpecRetry == CycleInit /\ [][RetryNext]_vars

(***************************************************************************)
(* Specification of the callers of run_and_log_improvement_cycle in one    *)
(* process: the loop of main() (caller 0) and requests to POST /improve,   *)
(* each with an orchestrator of its own.  The callers are coroutines on    *)
(* one event loop; run_improvement_cycle is an ordinary function, so a     *)
(* run keeps the thread from its call to its return, and the variables of  *)
(* the cycle describe the run that has it.  A caller waiting between the   *)
(* attempts of retry_policy has yielded.                                   *)
(***************************************************************************)
\* run_improvement_cycle has returned or raised
RunEnded == pc \in {"completed", "failed"}

\* variant: run_improvement_cycle yields the thread while it runs
ThreadFree_Always == TRUE

\* the event loop can resume a caller: no run is on the thread
ThreadFree == running = {}

\* the orchestrator a caller runs: the one it constructs when it starts
\* (main.py:54, main.py:127), afterwards the one it has
OrchestratorOf(r) ==
    IF requests[r].pc = "idle"
    THEN [NewRequest EXCEPT !.github = github_requests_init(now)]
    ELSE requests[r]

\* main.py:84: the caller's attempt calls run_improvement_cycle on its
\* orchestrator; a caller that starts reaches the call without yielding
BeginRun(r) ==
    /\ requests[r].pc \in {"idle", "ready"}
    /\ ThreadFree
    /\ BeginCycle
    /\ run_attempt' = OrchestratorOf(r).attempt
    /\ cached_proposal' = OrchestratorOf(r).cached
    /\ cached_summaries' = OrchestratorOf(r).summaries
    /\ github_requests' = OrchestratorOf(r).github
    /\ requests' = [requests EXCEPT ![r] = [OrchestratorOf(r) EXCEPT !.pc = "running"]]
    /\ running' = running \cup {r}
    /\ UNCHANGED openaiVars

\* main.py:85-115 with retry_policy, then main.py:63-70 or 130-137: the
\* run returned or raised; the caller is done, or will call again
EndRun(r) ==
    /\ r \in running
    /\ RunEnded
    /\ running' = running \ {r}
    /\ pc' = "idle"
    /\ LET again == pc = "failed"
                    /\ ~RetryStops(requests[r].attempt, retry_policy_stop_after_attempt)
       IN  /\ requests' = [requests EXCEPT ![r] =
                IF again \/ IsMain(r)
                THEN [pc |-> "ready",
                      attempt |-> IF again THEN requests[r].attempt + 1 ELSE 1,
                      cached |-> cached_proposal, summaries |-> cached_summaries,
                      github |-> github_requests]
                \* the request is answered and its orchestrator dropped
                ELSE [NewRequest EXCEPT !.pc = "done"]]
           /\ now' = IF IsMain(r) /\ ~again
                     THEN now + (IF pc = "completed" THEN DayMinutes ELSE FiveMinutes)
                     ELSE now
    \* the frame of the run is gone
    /\ founder_attempts' = 0
    /\ developer_attempts' = 0
    /\ calls' = NoCalls
    /\ proposal' = NoProposal
    /\ changes' = NoChanges
    /\ raised' = None
    /\ UNCHANGED << cycle, run_attempt, cached_summaries, cached_proposal,
                    pull_requests, advances, github_requests,
                    limiterGhosts, safetyVars, ledgerVars, openaiVars >>

ImproveNext ==
    \/ \E r \in Requesters : BeginRun(r)
    \/ \E r \in Requesters : EndRun(r)
    \/ SummarizeRepository
    \/ \E o \in FounderOutcomes : FounderInteraction(o)
    \/ \E o \in DeveloperOutcomes : DeveloperInteraction(o)
    \/ CreatePullRequest
    \/ WaitForGithub
    \/ \E d \in ClockSteps : SleepForGithub(d)
    \/ PullRequestCreated
    \/ \E at \in FailurePoints : PullRequestFailed(at)

SpecImprove == CycleInit /\ [][ImproveNext]_vars

(***************************************************************************)
(* Specification of the OpenAI budget under sequential use: one caller     *)
(* runs wait_for_openai(estimated_tokens), records the request with that   *)
(* number of tokens when the check returned True and later records its     *)
(* completion.  The limiter has been in use before: the minute window was  *)
(* opened two minutes ago by the last request of earlier use, the daily    *)
(* window an hour ago and the monthly window a day ago.  A caller that     *)
(* sleeps (1 s or 60 s, at most one step of the clock) checks again when   *)
(* the clock has advanced.                                                 *)
(***************************************************************************)
TokenEstimates ==
    {0, 1000, openai_limits.tokens_per_minute, openai_limits.tokens_per_minute + 1}

OpenaiClockSteps == {OneMinute, 2 * OneMinute, DayMinutes + 1, MonthMinutes + 1}

\* the tracking dict after earlier use that spent d tokens since the daily
\* reset and m tokens since the monthly reset
openai_requests_used(d, m) ==
    [last_reset |-> 0 - 2 * OneMinute, request_count |-> 1,
     token_count |-> openai_limits.tokens_per_minute,
     concurrent_count |-> 0, daily_tokens |-> d, monthly_tokens |-> m,
     last_daily_reset |-> 0 - HourMinutes, last_monthly_reset |-> 0 - DayMinutes]

EarlierUse ==
    { openai_requests_init(0) } \cup
    { openai_requests_used(d, m) :
        d \in {2000, 32000}, m \in {32000, 998000} }

openaiRest ==
    << github_requests, callerPc, last_check, granted, safetyVars, cycleVars,
       ledgerVars, endpointVars >>

OpenaiInit ==
    /\ now = 0
    /\ advances = 0
    /\ github_requests = github_requests_init(0)
    /\ callerPc = [c \in Callers |-> "idle"]
    /\ last_check = NoCheck
    /\ granted = 0
    /\ openai_requests \in EarlierUse
    /\ openai_pc = "idle"
    /\ openai_tokens = 0
    /\ OrchestratorInit
    /\ candidate = << >>
    /\ verdict = NoVerdict
    /\ plan_verdict = NoPlanVerdict
    /\ log_files = NoFiles

\* wait_for_openai(estimated_tokens) is called
WaitForOpenai(estimated_tokens) ==
    /\ openai_pc = "idle"
    /\ openai_pc' = "waiting"
    /\ openai_tokens' = estimated_tokens
    /\ UNCHANGED << openai_requests, now, advances, openaiRest >>

\* line 123: one evaluation of the loop condition
CheckOpenai ==
    /\ openai_pc = "waiting"
    /\ LET r == check_openai_limit(openai_requests, openai_tokens, now)
       IN  /\ openai_requests' = r.requests
           /\ openai_pc' = IF r.allowed THEN "allowed" ELSE "sleeping"
    /\ UNCHANGED << openai_tokens, now, advances, openaiRest >>

\* time passes; a sleeping caller wakes when its sleep is over (lines 124-129)
AdvanceOpenaiClock(d) ==
    /\ advances < MaxAdvances
    /\ now' = now + d
    /\ advances' = advances + 1
    /\ openai_pc' =
        IF /\ openai_pc = "sleeping"
           /\ d * 60 >= openai_sleep_seconds(openai_requests, openai_tokens)
        THEN "waiting"
        ELSE openai_pc
    /\ UNCHANGED << openai_requests, openai_tokens, openaiRest >>

\* line 129: asyncio.sleep(1) is over before the clock of the model, which
\* counts minutes, has advanced
WakeOpenai ==
    /\ openai_pc = "sleeping"
    /\ openai_sleep_seconds(openai_requests, openai_tokens) < 60
    /\ openai_pc' = "waiting"
    /\ UNCHANGED << openai_requests, openai_tokens, now, advances, openaiRest >>

RecordOpenai ==
    /\ openai_pc = "allowed"
    /\ openai_requests' = record_openai_request(openai_requests, openai_tokens)
    /\ openai_pc' = "inflight"
    /\ UNCHANGED << openai_tokens, now, advances, openaiRest >>

CompleteOpenai ==
    /\ openai_pc = "inflight"
    /\ openai_requests' = record_openai_completion(openai_requests)
    /\ openai_pc' = "idle"
    /\ UNCHANGED << openai_tokens, now, advances, openaiRest >>

OpenaiNext ==
    \/ \E estimated_tokens \in TokenEstimates : WaitForOpenai(estimated_tokens)
    \/ CheckOpenai
    \/ \E d \in OpenaiClockSteps : AdvanceOpenaiClock(d)
    \/ WakeOpenai
    \/ RecordOpenai
    \/ CompleteOpenai

SpecOpenai == OpenaiInit /\ [][OpenaiNext]_vars

\* The same under fairness: the event loop runs the waiting caller, time
\* keeps advancing, and a request in flight is completed.
SpecOpenaiFair ==
    /\ SpecOpenai
    /\ WF_vars(CheckOpenai)
    /\ WF_vars(WakeOpenai)
    /\ WF_vars(\E d \in OpenaiClockSteps : AdvanceOpenaiClock(d))
    /\ WF_vars(CompleteOpenai)

(***************************************************************************)
(* Specification of the history: the logs directory holds the files that   *)
(* end_cycle left there on earlier days, and get_cycle_history is called.  *)
(***************************************************************************)
Statuses == {"completed", "failed"}

\* the first minute of day d
DayStart(d) == (d - 1) * DayMinutes

\* the closed record of a cycle started at ts and ended at te
ClosedRecord(ts, te, status) == end_cycle(start_cycle(ts), status, te)

\* The logs directories that the cycles of the first d days can leave: on
\* each day no cycle ended, or the last one to end that day had started
\* that day or the day before, and its file was written or the write
\* failed part-way.
RECURSIVE FilesAfterDay(_)
FilesAfterDay(d) ==
    IF d = 0 THEN { NoFiles }
    ELSE LET before == FilesAfterDay(d - 1)
             starts == { DayStart(d) } \cup (IF d > 1 THEN { DayStart(d - 1) } ELSE {})
         IN  before \cup
             { _save_cycle_data(f, ClosedRecord(ts, DayStart(d), st), DayStart(d), w) :
                 f \in before, ts \in starts, st \in Statuses, w \in BOOLEAN }

HistoryInit ==
    /\ log_files \in FilesAfterDay(MaxDays)
    /\ OrchestratorInit
    /\ now = DayStart(MaxDays + 1)
    /\ advances = 0
    /\ github_requests = github_requests_init(now)
    /\ openai_requests = openai_requests_init(now)
    /\ openai_pc = "idle"
    /\ openai_tokens = 0
    /\ callerPc = [c \in Callers |-> "idle"]
    /\ last_check = NoCheck
    /\ granted = 0
    /\ candidate = << >>
    /\ verdict = NoVerdict
    /\ plan_verdict = NoPlanVerdict

GetCycleHistory(limit) ==
    /\ history' = [returned |-> TRUE, limit |-> limit,
                   entries |-> get_cycle_history(log_files, limit)]
    /\ UNCHANGED << cycle_data, log_files, limiterVars, safetyVars, cycleVars,
                    endpointVars, openaiVars >>

HistoryNext == \E limit \in 0..MaxLimit : GetCycleHistory(limit)

SpecHistory == HistoryInit /\ [][HistoryNext]_vars

(***************************************************************************)
(* Specification of the record: a client calls the methods of one          *)
(* Observability object that write the record of the cycle.                *)
(***************************************************************************)
\* the texts and the changes a client records; "" and {} are the values
\* that Python takes for false
Texts == {"", "text"}

RecordedChanges == { << >>, SafeChanges }

ledgerRest == << history, github_requests, callerPc, last_check, granted,
                 safetyVars, cycleVars, endpointVars, openaiVars >>

\* variant: the new record keeps the fix attempts of the previous one
StartCycle_KeepsFixAttempts ==
    /\ cycle_data' = [start_cycle(now) EXCEPT !.fix_attempts = cycle_data.fix_attempts]
    /\ UNCHANGED << log_files, now, advances, ledgerRest >>

StartCycle ==
    /\ cycle_data' = start_cycle(now)
    /\ UNCHANGED << log_files, now, advances, ledgerRest >>

RecordAnalysis(text) ==
    /\ cycle_data' = [cycle_data EXCEPT !.analysis = text]
    /\ UNCHANGED << log_files, now, advances, ledgerRest >>

RecordProposal(text) ==
    /\ cycle_data' = [cycle_data EXCEPT !.proposal = text]
    /\ UNCHANGED << log_files, now, advances, ledgerRest >>

RecordImplementationPlan(text) ==
    /\ cycle_data' = [cycle_data EXCEPT !.implementation_plan = text]
    /\ UNCHANGED << log_files, now, advances, ledgerRest >>

RecordChanges(files) ==
    /\ cycle_data' = [cycle_data EXCEPT !.changes = [returned |-> TRUE, files |-> files]]
    /\ UNCHANGED << log_files, now, advances, ledgerRest >>

FixIssues == << "Dangerous file system operation found in a.py: os.system(" >>

RecordFixAttempt ==
    /\ Len(cycle_data.fix_attempts) < MaxFixAttempts
    /\ cycle_data' = record_fix_attempt(cycle_data, FixIssues, SafeChanges, now)
    /\ UNCHANGED << log_files, now, advances, ledgerRest >>

EndCycle(status, written) ==
    /\ cycle_data' = end_cycle(cycle_data, status, now)
    /\ log_files' = _save_cycle_data(log_files, cycle_data', now, written)
    /\ UNCHANGED << now, advances, ledgerRest >>

RecordNext ==
    \/ StartCycle
    \/ \E text \in Texts : RecordAnalysis(text)
    \/ \E text \in Texts : RecordProposal(text)
    \/ \E text \in Texts : RecordImplementationPlan(text)
    \/ \E files \in RecordedChanges : RecordChanges(files)
    \/ \E status \in Statuses, written \in BOOLEAN : EndCycle(status, written)

SpecRecord == CycleInit /\ [][RecordNext]_vars

\* The ledger driven through every record method including record_fix_attempt,
\* with one non-empty text per stage.
AttemptsNext ==
    \/ StartCycle
    \/ RecordAnalysis("text")
    \/ RecordProposal("text")
    \/ RecordImplementationPlan("text")
    \/ \E files \in RecordedChanges : RecordChanges(files)
    \/ RecordFixAttempt
    \/ \E status \in Statuses, written \in BOOLEAN : EndCycle(status, written)

SpecAttempts == CycleInit /\ [][AttemptsNext]_vars

(***************************************************************************)
(* Specification of the ledger: cycles are started and ended while the     *)
(* clock moves on by the pauses of the main loop.                          *)
(***************************************************************************)
\* the pauses between two cycles (main.py:66, main.py:70)
LedgerSteps == {FiveMinutes, DayMinutes}

LedgerTick(d) ==
    /\ advances < MaxAdvances
    /\ advances' = advances + 1
    /\ now' = now + d
    /\ UNCHANGED << cycle_data, log_files, ledgerRest >>

LedgerNext ==
    \/ StartCycle
    \/ \E status \in Statuses, written \in BOOLEAN : EndCycle(status, written)
    \/ \E d \in LedgerSteps : LedgerTick(d)

SpecLedger == CycleInit /\ [][LedgerNext]_vars

(***************************************************************************)
(* Properties of test_changes.                                             *)
(***************************************************************************)
\* the Violation kind (spec.md section 3) an issue message of the code stands for
IssueKind(issue) ==
    CASE issue.msg = "Changes attempt to modify protected file"    -> "protected_file"
      [] issue.msg = "Changes attempt to modify protected pattern" -> "protected_pattern"
      [] issue.msg = "Syntax error in"                             -> "syntax_error"
      [] issue.msg = "Error during testing"                        -> "internal_error"
      [] OTHER                                                     -> "dangerous_operation"

ConfiguredNeedles ==
    Range(PROTECTED_PATTERNS) \cup Range(dangerous_imports) \cup Range(dangerous_fs_ops)

ContainsConfigured(content) == \E n \in ConfiguredNeedles : Occurs(n, content)

Escapes(file_path) == ".." \in Range(file_path.dir)

HasAbsoluteOpen(content) ==
    \E i \in 1..Len(content.snippets) :
        LET args == OpenCallArgs(content.snippets[i])
        IN  Len(args) > 0 /\ isabs(args[1])

\* C5: every changeset that contains a protected path is answered with
\* ok = FALSE and a protected-file violation naming that path, whatever the
\* contents and the other entries are.
C5_ProtectedFileFlagged ==
    verdict.returned =>
        \A i \in 1..Len(candidate) :
            candidate[i].path \in Range(PROTECTED_FILES) =>
                /\ ~verdict.ok
                /\ \E k \in 1..Len(verdict.issues) :
                      /\ IssueKind(verdict.issues[k]) = "protected_file"
                      /\ verdict.issues[k].file = candidate[i].path

\* C6: an entry whose path leaves the allowed root ("../outside.py") is
\* rejected with a path_escape violation, whatever its content.
C6_PathEscapeRejected ==
    verdict.returned =>
        \A i \in 1..Len(candidate) :
            Escapes(candidate[i].path) =>
                /\ ~verdict.ok
                /\ \E k \in 1..Len(verdict.issues) :
                      IssueKind(verdict.issues[k]) = "path_escape"

\* C7: an entry on a path that is not AI-maintained whose content contains
\* os.system( or any other configured pattern / denylisted operation makes
\* the verdict ok = FALSE with a protected_pattern or dangerous_operation
\* violation for that entry.
C7_PatternRejected ==
    verdict.returned =>
        \A i \in 1..Len(candidate) :
            ( /\ candidate[i].path \notin Range(AI_MAINTAINED_FILES)
              /\ ContainsConfigured(candidate[i].content) ) =>
                /\ ~verdict.ok
                /\ \E k \in 1..Len(verdict.issues) :
                      \/ /\ IssueKind(verdict.issues[k]) = "dangerous_operation"
                         /\ verdict.issues[k].file = candidate[i].path
                      \/ /\ IssueKind(verdict.issues[k]) = "protected_pattern"
                         /\ Occurs(verdict.issues[k].detail, candidate[i].content)

NoProtectedPathOrNeedle ==
    /\ Keys(candidate) \cap Range(PROTECTED_FILES) = {}
    /\ \A i \in 1..Len(candidate) : ~ContainsConfigured(candidate[i].content)

\* C8 as stated: a changeset whose paths are all outside the protected
\* list and whose contents contain no configured pattern or denylisted
\* operation is answered with ok = TRUE; no other check can fail it.
C8_CleanChangesetOk ==
    (verdict.returned /\ NoProtectedPathOrNeedle) => verdict.ok

\* C8 as amended: ... and whose .py entries are parsed by ast.parse without
\* an error, and whose contents hold no open( call with an absolute first
\* argument, is answered with ok = TRUE.
C8_CleanParsedChangesetOk ==
    ( /\ verdict.returned
      /\ NoProtectedPathOrNeedle
      /\ \A i \in 1..Len(candidate) :
            /\ endswith_py(candidate[i].path) => candidate[i].content.parse = "ok"
            /\ ~HasAbsoluteOpen(candidate[i].content) )
    => verdict.ok

C8_Witness ==
    /\ verdict.returned
    /\ verdict.ok
    /\ Len(candidate) = 2
    /\ \E i \in 1..Len(candidate) :
          /\ endswith_py(candidate[i].path)
          /\ Occurs("open(", candidate[i].content)

(***************************************************************************)
(* Properties of the GitHub budget.                                        *)
(***************************************************************************)
\* C3: with concurrent callers reserving cost 1 against capacity C, in no
\* interleaving of their check and record steps are more than C
\* reservations granted in a window, nor does the used count exceed C.
C3_NeverMoreThanCapacity ==
    /\ granted <= github_limits.requests_per_hour
    /\ github_requests.request_count <= github_limits.requests_per_hour

Stages == {"summarize", "propose", "implement", "publish"}

\* C1: the publisher is only ever invoked with a changeset for which the
\* most recent validation returned ok = true.
C1_PublishedOnlyValidated ==
    \A i \in 1..Len(pull_requests) : pull_requests[i].approved

C9_FixLoopExhaustion ==
    (RunEnded /\ changes.returned /\ ~test_changes(changes.files).ok) =>
        /\ pc = "failed"
        /\ Len(cycle_data.fix_attempts) = 3
        /\ \A i \in 1..Len(pull_requests) : pull_requests[i].cycle # cycle

\* C10: across two consecutive cycles on the same orchestrator, the
\* proposing stage of the later cycle never returns the Proposal produced
\* in the earlier one.
C10_ProposalNotReused ==
    proposal # NoProposal => proposal.cycle = cycle


\* The call of run_and_log_improvement_cycle (one trigger of main's loop)
\* a publish belongs to: its runs are numbered consecutively, as are the
\* attempts of retry_policy, so the difference identifies the trigger.
TriggerOf(pr) == pr.cycle - pr.attempt

\* C11: a publish failure is terminal for the triggered cycle: once
\* create_pull_request has failed, the publisher is not invoked again for
\* that trigger, neither by a retry of the publish step nor by a retry
\* that re-runs the cycle.
C11_PublishFailureTerminal ==
    \A i, j \in 1..Len(pull_requests) :
        (i < j /\ ~pull_requests[i].created) =>
            TriggerOf(pull_requests[j]) # TriggerOf(pull_requests[i])


\* Texts a status object of get_cycle_status carries
StatusTexts(st) ==
    { st.status, st.failure_details, st.summary.analysis, st.summary.proposal,
      st.summary.implementation_plan } \ {None}

\* C12: every started cycle ends in exactly one of the statuses completed
\* or failed, recorded in the ledger by the end of the run, and a cycle
\* that ended failed carries a non-empty failure reason that getStatus
\* reports.
C12_EndRecordedWithReason ==
    RunEnded =>
        /\ cycle_data.status = pc
        /\ get_cycle_status(cycle_data).status = pc
        /\ pc = "failed" => Truthy(get_cycle_status(cycle_data).failure_details)

\* C13: when every collaborator call succeeds and the changeset passes
\* validation, the cycle ends completed and getStatus reports the status
\* completed together with the URL the publisher returned.
C13_CleanCycleReported ==
    ( /\ RunEnded
      /\ founder_attempts = 1 /\ proposal.kind = "parsed"
      /\ developer_attempts = 1 /\ changes.returned
      /\ test_changes(changes.files).ok
      /\ pull_requests # << >>
      /\ pull_requests[Len(pull_requests)].cycle = cycle
      /\ pull_requests[Len(pull_requests)].created ) =>
        /\ pc = "completed"
        /\ get_cycle_status(cycle_data).status = "completed"
        /\ html_url \in StatusTexts(get_cycle_status(cycle_data))


\* the stages after the proposing stage
AfterProposing == {"implementing", "publishing", "pr_waiting", "pr_inflight", "completed"}

\* C14: no error is swallowed: an error raised by the external model call
\* is never turned into a normal (empty) response that lets the cycle
\* advance; the stage is retried or the cycle ends failed.  (A proposal of
\* kind "empty" is the one parsed from the "" that generate_response
\* returns when the model call raised.)
C14_NoErrorSwallowed ==
    proposal.kind = "empty" => pc \notin AfterProposing


\* C15: every external collaborator call made during a cycle (repository
\* summary, proposal, implementation, publish) is preceded by a budget
\* reservation with the RateLimiter: at any time the run has recorded at
\* least as many requests as it has made collaborator calls.
C15_CallsReserved ==
    calls.summarize + calls.propose + calls.implement + calls.github
        <= calls.reserved


\* the proposing stage of this run has returned (a Proposal or None)
ProposingReturned == proposal.cycle # 0

C17_NoProposalNoImplementation ==
    (ProposingReturned /\ proposal.kind \in {"None", "empty"}) =>
        /\ calls.implement = 0
        /\ calls.publish = 0

\* C18: when the implementation stage yields an empty set of file changes,
\* the publisher is not invoked in that cycle.
C18_EmptyChangesetNotPublished ==
    (changes.returned /\ changes.files = << >>) => calls.publish = 0


ReadableNewestFirst(files) ==
    SortedDescending({ d \in DOMAIN files : Loadable(files[d]) })

\* C20: getHistory(limit) returns at most limit entries, only for closed
\* cycles whose record is readable, most recent first: for any set of
\* stored cycle records the result is the limit most recent ones in
\* descending order of time.
C20_HistoryMostRecent ==
    history.returned =>
        /\ Len(history.entries) <= history.limit
        /\ \A i \in 1..Len(history.entries) : history.entries[i].end_time # NoTime
        /\ \A i \in 1..(Len(history.entries) - 1) :
                history.entries[i].end_time >= history.entries[i + 1].end_time
        /\ history.entries =
                HistoryOf(log_files, Slice(ReadableNewestFirst(log_files), history.limit))


(***************************************************************************)
(* Properties of the ledger.                                               *)
(***************************************************************************)
\* the records that get_cycle_history returns when the limit is the number
\* of files stored
Retrievable(files) == Range(get_cycle_history(files, Cardinality(DOMAIN files)))

\* the step wrote the file of today and json.load can read it
SavedNow == log_files' # log_files /\ Loadable(log_files'[DateOf(now)])

\* C21: the ledger is append-only and durable: a record closed with
\* end_cycle stays retrievable through get_cycle_history after later
\* cycles; closing a later cycle never overwrites or removes the record of
\* an earlier one (a cycle is known by its start_time).
C21_LedgerAppendOnly ==
    [][ SavedNow =>
            \A e \in Retrievable(log_files) :
                e.start_time # NoTime =>
                    \E f \in Retrievable(log_files') : f.start_time = e.start_time ]_vars


\* a field of the record is set: it is not None
IsSet(text) == text # None

\* the phase of the rules, the first rule that applies
PhaseByFields(cd) ==
    CASE IsSet(cd.analysis) /\ ~IsSet(cd.proposal) -> "analyzing"
      [] IsSet(cd.proposal) /\ ~IsSet(cd.implementation_plan) -> "proposing"
      [] IsSet(cd.implementation_plan) /\ ~cd.changes.returned -> "implementing"
      [] cd.changes.returned /\ cd.end_time = NoTime -> "reviewing"
      [] OTHER -> None

\* C22: the phase that get_cycle_status reports for a started cycle depends
\* only on which fields of the record are set: analyzing when analysis is
\* set and proposal is not, proposing when proposal is set and the plan is
\* not, implementing when the plan is set and changes are not, reviewing
\* when changes are set and end_time is not, no phase otherwise.
C22_PhaseFromFields ==
    cycle_data.start_time # NoTime =>
        get_cycle_status(cycle_data).phase = PhaseByFields(cycle_data)


\* the record is closed
Closed(cd) == cd.end_time # NoTime

C24_OkIffNoIssues ==
    /\ verdict.returned => (verdict.ok <=> verdict.issues = << >>)
    /\ plan_verdict.returned => (plan_verdict.ok <=> plan_verdict.issues = << >>)

\* validate_plan returned from its handler of an internal error
C24_Witness ==
    /\ plan_verdict.returned
    /\ ~plan_verdict.plan.given
    /\ ~plan_verdict.ok
    /\ Len(plan_verdict.issues) = 1


\* the violations of a changeset, one for each entry and rule it breaks:
\* a syntax error, a protected path, a protected pattern in the content, a
\* denylisted operation in the content of a path that is not AI-maintained
ExpectedViolations(cs) ==
    { [kind |-> "syntax_error", file |-> cs[i].path, detail |-> "SyntaxError"] :
        i \in { j \in 1..Len(cs) : /\ endswith_py(cs[j].path)
                                         /\ ast_parse(cs[j].content) = "SyntaxError" } }
    \cup
    { [kind |-> "protected_file", file |-> cs[i].path, detail |-> ""] :
        i \in { j \in 1..Len(cs) : cs[j].path \in Range(PROTECTED_FILES) } }
    \cup
    { [kind |-> "protected_pattern", file |-> cs[x[1]].path, detail |-> x[2]] :
        x \in { y \in (1..Len(cs)) \X Range(PROTECTED_PATTERNS) :
                  Occurs(y[2], cs[y[1]].content) } }
    \cup
    { [kind |-> "dangerous_operation", file |-> cs[x[1]].path, detail |-> x[2]] :
        x \in { y \in (1..Len(cs)) \X (Range(dangerous_imports) \cup Range(dangerous_fs_ops)) :
                  /\ cs[y[1]].path \notin Range(AI_MAINTAINED_FILES)
                  /\ Occurs(y[2], cs[y[1]].content) } }

\* the verdict holds an issue for the violation (the issue of a protected
\* pattern names the pattern and no file)
Reported(v, issues) ==
    \E k \in 1..Len(issues) :
        /\ IssueKind(issues[k]) = v.kind
        /\ issues[k].detail = v.detail
        /\ v.kind # "protected_pattern" => issues[k].file = v.file

\* C25: test_changes does not stop at the first violation: for a changeset
\* with several violations the verdict holds an issue for every one.
C25_AllViolationsReported ==
    (verdict.returned /\ Cardinality(ExpectedViolations(candidate)) >= 2) =>
        \A v \in ExpectedViolations(candidate) : Reported(v, verdict.issues)


\* the entry breaks a rule that holds for every path: its path is in the
\* protected-file list or its content matches a protected pattern
BreaksProtection(entry) ==
    \/ entry.path \in Range(PROTECTED_FILES)
    \/ \E i \in 1..Len(PROTECTED_PATTERNS) : Occurs(PROTECTED_PATTERNS[i], entry.content)

PlanOf(prop) ==
    CASE prop.kind = "parsed" ->
            [given |-> TRUE, mentions |-> { Path(<<"src">>, "util", "py") }, snippets |-> << >>]
      [] prop.kind = "protected" ->
            [given |-> TRUE, mentions |-> { Path(<<"src">>, "config", "py") }, snippets |-> << >>]
      [] prop.kind = "empty" ->
            [given |-> TRUE, mentions |-> {}, snippets |-> << >>]
      [] OTHER -> NoPlan

\* C27: a proposal whose text fails validate_plan (it names a protected
\* file or matches a protected pattern) takes the cycle to failed: the
\* developer is not invoked for it and nothing is published.
C27_RejectedProposalFails ==
    (ProposingReturned /\ PlanOf(proposal).given /\ ~validate_plan(PlanOf(proposal)).ok) =>
        /\ calls.implement = 0
        /\ calls.publish = 0
        /\ pc # "completed"


\* the callers whose wait_for_github has returned and whose request is not
\* yet completed
Admitted == { c \in Callers : callerPc[c] \in {"allowed", "inflight"} }

\* C28: wait_for_github returns only after a check has succeeded, and when
\* it has returned the budget is reserved for the caller: the used counts
\* hold the caller's request in every state another caller can observe.
C28_WaitReserves ==
    /\ granted <= github_requests.request_count
    /\ Cardinality(Admitted) <= github_requests.concurrent_count


\* C29: create_pull_request either returns the URL of a pull request or,
\* when one of its steps fails, leaves nothing half-published: the branch
\* that the failed call created, with the files committed to it, does not
\* remain.
C29_PublishAtomic ==
    \A i \in 1..Len(pull_requests) :
        ~pull_requests[i].created => ~pull_requests[i].branch


\* the calls of implement_changes so far, when every call of it failed:
\* every earlier run made all the attempts of its wrapper
DeveloperInvocations ==
    IF cycle = 0 THEN 0
    ELSE (cycle - 1) * developer_stop_after_attempt + developer_attempts

\* C30: every retry path has a ceiling: a collaborator that fails on every
\* call is invoked at most as often as the wrapper of the stage and the
\* wrapper of the cycle allow together; the loop of main adds no further
\* calls for the failed cycle.
C30_RetryCeiling ==
    DeveloperInvocations <= developer_stop_after_attempt * retry_policy_stop_after_attempt


\* C31: within one cycle the fix-attempt counter (the length of fix_attempts)
\* only grows, by one per record_fix_attempt, never exceeds the maximum of 3
\* attempts, and is zero after every start_cycle.
FixAttemptCount == Len(cycle_data.fix_attempts)

StartsCycle == cycle_data' = start_cycle(now)

C31_FixCounterMonotonicBounded ==
    /\ [](FixAttemptCount <= 3)
    /\ [][ \/ FixAttemptCount' = FixAttemptCount
           \/ FixAttemptCount' = FixAttemptCount + 1
           \/ StartsCycle /\ FixAttemptCount' = 0 ]_vars


\* the run ended in the proposal stage: every call of generate_proposal raised
FounderStageFailed ==
    pc = "failed" /\ developer_attempts = 0 /\ calls.propose = founder_attempts

\* C32: when the proposal-generation call fails on every attempt it is invoked
\* exactly 4 times (the initial call and 3 retries) and the cycle is then
\* reported as failed, with the failure recorded in the cycle's record.
C32_FounderFailureFourCalls ==
    FounderStageFailed =>
        /\ founder_attempts = 4
        /\ cycle_data.status = "failed"


\* C35: under sequential use (every record_openai_request(t) directly after a
\* check_openai_limit(t) that returned True, and matched by one
\* record_openai_completion) every counter of the OpenAI budget stays within
\* its limit and the in-flight count within 0..concurrent_requests.
C35_OpenaiWithinLimits ==
    /\ openai_requests.request_count <= openai_limits.requests_per_minute
    /\ openai_requests.token_count <= openai_limits.tokens_per_minute
    /\ openai_requests.daily_tokens <= openai_limits.daily_token_limit
    /\ openai_requests.monthly_tokens <= openai_limits.monthly_token_limit
    /\ 0 <= openai_requests.concurrent_count
    /\ openai_requests.concurrent_count <= openai_limits.concurrent_requests


C35_Witness ==
    /\ openai_pc = "inflight"
    /\ openai_requests.concurrent_count = openai_limits.concurrent_requests
    /\ openai_requests.request_count = openai_limits.requests_per_minute
    /\ openai_requests.daily_tokens = openai_limits.daily_token_limit


\* a step in which the caller of wait_for_openai evaluates check_openai_limit
OpenaiCheckStep == openai_pc = "waiting" /\ openai_pc' \in {"allowed", "sleeping"}

MinuteFields(o) == << o.last_reset, o.request_count, o.token_count >>
DailyFields(o) == << o.last_daily_reset, o.daily_tokens >>
MonthlyFields(o) == << o.last_monthly_reset, o.monthly_tokens >>

\* C33: the check is side-effect-free except for the window reset: a check
\* that finds no window expired changes nothing, and a check that resets a
\* window changes only the start and the counters of that window, never the
\* in-flight count and never the counters of a window that has not expired.
C33_CheckFrame ==
    [][ OpenaiCheckStep =>
        /\ openai_tokens' = openai_tokens /\ now' = now
        /\ openai_requests'.concurrent_count = openai_requests.concurrent_count
        /\ \/ MinuteFields(openai_requests') = MinuteFields(openai_requests)
           \/ /\ minute_window_expired(openai_requests, now)
              /\ MinuteFields(openai_requests') = << now, 0, 0 >>
        /\ \/ DailyFields(openai_requests') = DailyFields(openai_requests)
           \/ /\ daily_window_expired(openai_requests, now)
              /\ DailyFields(openai_requests') = << now, 0 >>
        /\ \/ MonthlyFields(openai_requests') = MonthlyFields(openai_requests)
           \/ /\ monthly_window_expired(openai_requests, now)
              /\ MonthlyFields(openai_requests') = << now, 0 >>
        /\ ( /\ ~minute_window_expired(openai_requests, now)
             /\ ~daily_window_expired(openai_requests, now)
             /\ ~monthly_window_expired(openai_requests, now) )
           => openai_requests' = openai_requests
      ]_vars

\* a check has just reset the minute window alone, with tokens of the day
\* and of the month on the counters
C33_Witness ==
    /\ openai_pc \in {"allowed", "sleeping"}
    /\ openai_requests.last_reset = now
    /\ openai_requests.request_count = 0
    /\ openai_requests.last_daily_reset < now
    /\ openai_requests.daily_tokens > 0
    /\ openai_requests.last_monthly_reset < openai_requests.last_daily_reset
    /\ openai_requests.monthly_tokens > 0

\* the window of the minute, of the day, of the month was reset by the step
MinuteReset == openai_requests'.last_reset # openai_requests.last_reset
DailyReset == openai_requests'.last_daily_reset # openai_requests.last_daily_reset
MonthlyReset == openai_requests'.last_monthly_reset # openai_requests.last_monthly_reset

\* C34: a check resets a window exactly when now - window_start >= window,
\* the instant of equality included, and right after a reset the use counted
\* in the window is within its capacity.
C34_ResetExactlyWhenElapsed ==
    [][ OpenaiCheckStep =>
        /\ MinuteReset <=> now - openai_requests.last_reset >= OneMinute
        /\ DailyReset <=> now - openai_requests.last_daily_reset >= DayMinutes
        /\ MonthlyReset <=> now - openai_requests.last_monthly_reset >= MonthMinutes
        /\ MinuteReset =>
            /\ openai_requests'.request_count <= openai_limits.requests_per_minute
            /\ openai_requests'.token_count <= openai_limits.tokens_per_minute
        /\ DailyReset =>
            openai_requests'.daily_tokens <= openai_limits.daily_token_limit
        /\ MonthlyReset =>
            openai_requests'.monthly_tokens <= openai_limits.monthly_token_limit
      ]_vars


\* create_pull_request is being executed
InCreatePullRequest == pc \in {"pr_waiting", "pr_inflight"}

WindowsElapsed ==
    /\ minute_window_expired(openai_requests, now)
    /\ daily_window_expired(openai_requests, now)
    /\ monthly_window_expired(openai_requests, now)

\* C37: wait_for_openai(estimated_tokens) returns for every estimated cost
\* when time keeps advancing and requests in flight are completed: a caller
\* that waits once the windows have elapsed is eventually let through and
\* does not spin forever.
C37_WaitReturns ==
    (openai_pc = "waiting" /\ WindowsElapsed) ~> (openai_pc = "allowed")


\* a step that opens a new record: the start time changes, a closed record
\* becomes an open one, a stage field that was set is unset, or the list of
\* fix attempts gets shorter
OpensRecord ==
    \/ cycle_data'.start_time # cycle_data.start_time
    \/ Closed(cycle_data) /\ ~Closed(cycle_data')
    \/ cycle_data.status # None /\ cycle_data'.status = None
    \/ IsSet(cycle_data.analysis) /\ ~IsSet(cycle_data'.analysis)
    \/ IsSet(cycle_data.proposal) /\ ~IsSet(cycle_data'.proposal)
    \/ IsSet(cycle_data.implementation_plan) /\ ~IsSet(cycle_data'.implementation_plan)
    \/ cycle_data.changes.returned /\ ~cycle_data'.changes.returned
    \/ Len(cycle_data'.fix_attempts) < Len(cycle_data.fix_attempts)

CleanRecord(cd) ==
    /\ cd.start_time # NoTime
    /\ cd.analysis = None
    /\ cd.proposal = None
    /\ cd.implementation_plan = None
    /\ cd.changes = NoChanges
    /\ cd.status = None
    /\ cd.end_time = NoTime
    /\ cd.fix_attempts = << >>

\* the status and the summary of a record show no stage data and no fix attempt
ShowsNothing(cd) ==
    /\ get_cycle_status(cd).status = "running"
    /\ get_cycle_status(cd).phase = None
    /\ get_cycle_status(cd).end_time = NoTime
    /\ get_cycle_status(cd).failure_details = None
    /\ get_cycle_summary(cd).analysis = None
    /\ get_cycle_summary(cd).proposal = None
    /\ get_cycle_summary(cd).implementation_plan = None
    /\ get_cycle_summary(cd).files = << >>
    /\ get_cycle_summary(cd).fix_attempts = << >>
    /\ get_cycle_summary(cd).status = None
    /\ get_cycle_summary(cd).end_time = NoTime

\* C38: start_cycle yields a clean record whatever the previous one held:
\* after it the analysis, proposal, implementation plan, changes, status and
\* end_time are unset and the fix-attempt list is empty, so the status and
\* the summary of the new cycle show nothing of an earlier cycle.
C38_StartCycleClean ==
    [][ OpensRecord => CleanRecord(cycle_data') /\ ShowsNothing(cycle_data') ]_vars

\* start_cycle has just been called after a cycle that recorded every stage
\* and a fix attempt and was closed and saved
C38_Witness ==
    /\ CleanRecord(cycle_data)
    /\ DateOf(now) \in DOMAIN log_files
    /\ Loadable(log_files[DateOf(now)])
    /\ LET previous == log_files[DateOf(now)].data
       IN  /\ IsSet(previous.analysis)
           /\ IsSet(previous.proposal)
           /\ IsSet(previous.implementation_plan)
           /\ previous.changes.returned
           /\ Len(previous.fix_attempts) > 0
           /\ Closed(previous)

=============================================================================
